---- MODULE Spec2Model ----
(***************************************************************************)
(* A model of src/ses-transport.js, the nodemailer transport that sends a  *)
(* composed mail through the SES raw-send call of aws-sdk.                 *)
(*                                                                         *)
(* Two specifications share the module:                                    *)
(*   Spec        send() calls in flight on one adapter: the stream events  *)
(*               of each mail object, the client's pending requests and    *)
(*               the provider responses, interleaved freely;               *)
(*   SpecCreate  the constructor, applied to one options value.            *)
(***************************************************************************)
EXTENDS Integers, Sequences, FiniteSets

VARIABLES
    pc,         \* per send call: idle, streaming, sending, done, uncaught
    keepBcc,    \* per send call: mail.message.keepBcc
    email,      \* the `email` variable of each generateMessage activation
    emitted,    \* per send call: the chunks its stream has emitted (history)
    streamErr,  \* per send call: the error its stream signalled, or Undefined
    inflight,   \* the client's pending sendRawEmail requests
    rawSent,    \* per send call: the params it passed to sendRawEmail (history)
    response,   \* per send call: the (err, data) the client answered (history)
    cbCalls,    \* per send call: the invocations of its callback
    log,        \* per send call: the steps taken, in order (history)
    alive,      \* the process has not died of an uncaught exception
    options,    \* the value passed to the constructor
    adapter,    \* the constructed SESTransport, or a raised exception
    ctorPc      \* the constructor: start, done

sendVars == <<pc, keepBcc, email, emitted, streamErr, inflight, rawSent,
              response, cbCalls, log, alive>>
ctorVars == <<options, adapter, ctorPc>>
vars == <<pc, keepBcc, email, emitted, streamErr, inflight, rawSent,
          response, cbCalls, log, alive, options, adapter, ctorPc>>

---------------------------------------------------------------------------
(* Bounds *)

NumCalls == 2      \* send calls on the one adapter
MaxChunks == 2     \* 'data' events over all streams

Calls == 1..NumCalls

---------------------------------------------------------------------------
(* JavaScript values.  Every value is a record tagged by t. *)

Undefined == [t |-> "undefined"]
Null == [t |-> "null"]
Str(s) == [t |-> "string", v |-> s]
Num(n) == [t |-> "number", v |-> n]
Bool(b) == [t |-> "boolean", v |-> b]
\* An Error object: id is its identity.
ErrorObj(i, m) == [t |-> "Error", id |-> i, message |-> m]
Buf(bytes) == [t |-> "Buffer", bytes |-> bytes]

\* ToBoolean
Truthy(v) ==
    CASE v.t = "undefined" -> FALSE
      [] v.t = "null" -> FALSE
      [] v.t = "string" -> v.v # ""
      [] v.t = "text" -> v.cs # <<>>
      [] v.t = "number" -> v.v # 0
      [] v.t = "boolean" -> v.v
      [] OTHER -> TRUE

Digit(n) ==
    CASE n = 0 -> "0" [] n = 1 -> "1" [] n = 2 -> "2" [] n = 3 -> "3"
      [] n = 4 -> "4" [] n = 5 -> "5" [] n = 6 -> "6" [] n = 7 -> "7"
      [] n = 8 -> "8" [] n = 9 -> "9"

RECURSIVE Decimal(_)
Decimal(n) == IF n < 10 THEN Digit(n) ELSE Decimal(n \div 10) \o Digit(n % 10)

\* ToString, as string concatenation applies it
ToString(v) ==
    CASE v.t = "undefined" -> "undefined"
      [] v.t = "null" -> "null"
      [] v.t = "string" -> v.v
      [] v.t = "number" -> IF v.v < 0 THEN "-" \o Decimal(-v.v) ELSE Decimal(v.v)
      [] v.t = "boolean" -> IF v.v THEN "true" ELSE "false"
      [] v.t = "Error" -> IF v.message = "" THEN "Error" ELSE "Error: " \o v.message
      [] OTHER -> "[object Object]"

\* err instanceof Error
InstanceOfError(v) == v.t = "Error"

---------------------------------------------------------------------------
(* UTF-8, as Buffer.prototype.toString('utf-8') decodes and                *)
(* new Buffer(string, 'utf-8') encodes.  A JavaScript string is the        *)
(* sequence of its code points; a Buffer is the sequence of its bytes.     *)
(* The decoder covers the one- and two-byte forms: a byte that does not    *)
(* start or complete one decodes to U+FFFD.                                *)

Replacement == 65533

RECURSIVE Utf8Decode(_)
Utf8Decode(bytes) ==
    IF bytes = <<>> THEN <<>>
    ELSE LET b == Head(bytes) IN
         IF b < 128 THEN <<b>> \o Utf8Decode(Tail(bytes))
         ELSE IF /\ b >= 194 /\ b <= 223
                 /\ Len(bytes) >= 2 /\ bytes[2] >= 128 /\ bytes[2] <= 191
              THEN <<(b % 32) * 64 + (bytes[2] % 64)>>
                     \o Utf8Decode(Tail(Tail(bytes)))
              ELSE <<Replacement>> \o Utf8Decode(Tail(bytes))

RECURSIVE Utf8Encode(_)
Utf8Encode(cps) ==
    IF cps = <<>> THEN <<>>
    ELSE LET c == Head(cps) IN
         (IF c < 128 THEN <<c>>
          ELSE IF c < 2048 THEN <<192 + (c \div 64), 128 + (c % 64)>>
          ELSE <<224 + (c \div 4096), 128 + ((c \div 64) % 64), 128 + (c % 64)>>)
         \o Utf8Encode(Tail(cps))

\* (chunk || '').toString('utf-8'), of a chunk that is a Buffer or missing
ChunkText(chunk) ==
    IF ~Truthy(chunk) THEN <<>> ELSE Utf8Decode(chunk.bytes)

\* email += (chunk || '').toString('utf-8')
Accumulate(acc, chunk) == acc \o ChunkText(chunk)

\* params = { RawMessage: { Data: new Buffer(email, 'utf-8') } }
RawParams(text) == [RawMessage |-> [Data |-> Buf(Utf8Encode(text))]]

---------------------------------------------------------------------------
(* Strings the constructor matches and stores are sequences of characters. *)

Txt(cs) == [t |-> "text", cs |-> cs]

UpperAlpha ==
    <<"A", "B", "C", "D", "E", "F", "G", "H", "I", "J", "K", "L", "M",
      "N", "O", "P", "Q", "R", "S", "T", "U", "V", "W", "X", "Y", "Z">>
LowerAlpha ==
    <<"a", "b", "c", "d", "e", "f", "g", "h", "i", "j", "k", "l", "m",
      "n", "o", "p", "q", "r", "s", "t", "u", "v", "w", "x", "y", "z">>

\* The canonical form the i flag compares characters in.
Canonical(ch) ==
    IF \E i \in 1..Len(UpperAlpha) : UpperAlpha[i] = ch
    THEN LowerAlpha[CHOOSE i \in 1..Len(UpperAlpha) : UpperAlpha[i] = ch]
    ELSE ch

wEmail == <<"e", "m", "a", "i", "l">>
wAmazonaws == <<"a", "m", "a", "z", "o", "n", "a", "w", "s">>
wCom == <<"c", "o", "m">>
wUndefined == <<"u", "n", "d", "e", "f", "i", "n", "e", "d">>
wDefaultRegion == <<"u", "s", "-", "e", "a", "s", "t", "-", "1">>

\* The characters of ToString(v), for the values exec is handed.
ToChars(v) ==
    CASE v.t = "text" -> v.cs
      [] v.t = "undefined" -> wUndefined
      [] v.t = "number" /\ v.v >= 0 /\ v.v < 10 -> <<Digit(v.v)>>

---------------------------------------------------------------------------
(* The pattern of the constructor, as exec matches it: three greedy groups *)
(* of any characters, the first followed by the word email, the second by  *)
(* an escaped full stop, the third by any character, amazonaws, any        *)
(* character, com; case-insensitive, unanchored.  The match starts         *)
(* leftmost and each group is as long as the rest of the pattern allows.   *)

\* The literal lit stands at position i of s.
LitAt(s, i, lit) ==
    /\ i >= 1
    /\ i + Len(lit) - 1 <= Len(s)
    /\ \A n \in 1..Len(lit) : Canonical(s[i + n - 1]) = Canonical(lit[n])

\* `.` matches one character that is no line terminator.
DotAt(s, i) == i >= 1 /\ i <= Len(s) /\ s[i] \notin {"\n", "\r"}

\* `\.` matches a full stop.
EscapedDotAt(s, i) == i >= 1 /\ i <= Len(s) /\ s[i] = "."

\* A greedy group can span positions i .. j-1.
StarSpan(s, i, j) == \A n \in i..(j - 1) : DotAt(s, n)

\* .amazonaws.com stands at position k
TailAt(s, k) ==
    /\ DotAt(s, k)
    /\ LitAt(s, k + 1, wAmazonaws)
    /\ DotAt(s, k + 1 + Len(wAmazonaws))
    /\ LitAt(s, k + 2 + Len(wAmazonaws), wCom)

Max(S) == CHOOSE x \in S : \A y \in S : y <= x
Min(S) == CHOOSE x \in S : \A y \in S : x <= y

\* The ends the third group can take when it starts at j.
Group3Ends(s, j) == {k \in j..Len(s) : TailAt(s, k) /\ StarSpan(s, j, k)}

\* The ends the second group can take when it starts at i.
Group2Ends(s, i) ==
    {j \in i..Len(s) : EscapedDotAt(s, j) /\ StarSpan(s, i, j)
                        /\ Group3Ends(s, j + 1) # {}}

\* The ends the first group can take when it starts at b.
Group1Ends(s, b) ==
    {e \in b..Len(s) : LitAt(s, e, wEmail) /\ StarSpan(s, b, e)
                        /\ Group2Ends(s, e + Len(wEmail)) # {}}

\* pattern.exec(v): Null, or the captures of the match.
PatternExec(v) ==
    LET s == ToChars(v)
        starts == {b \in 1..(Len(s) + 1) : Group1Ends(s, b) # {}}
    IN IF starts = {} THEN Null
       ELSE LET b == Min(starts)
                e == Max(Group1Ends(s, b))
                i == e + Len(wEmail)
                j == Max(Group2Ends(s, i))
                k == Max(Group3Ends(s, j + 1))
            IN [t |-> "match",
                g1 |-> Txt(SubSeq(s, b, e - 1)),
                g2 |-> Txt(SubSeq(s, i, j - 1)),
                g3 |-> Txt(SubSeq(s, j + 1, k - 1))]

---------------------------------------------------------------------------
(* function SESTransport(options) *)

OptionKeys ==
    {"accessKeyId", "AWSAccessKeyID", "secretAccessKey", "AWSSecretKey",
     "sessionToken", "AWSSecurityToken", "apiVersion", "region",
     "ServiceUrl", "serviceUrl"}

Object(f) == [t |-> "object", f |-> f]
EmptyObject == Object([k \in OptionKeys |-> Undefined])

\* a || b
Or(a, b) == IF Truthy(a) THEN a ELSE b
\* a && b
And(a, b) == IF Truthy(a) THEN b ELSE a

\* A constructor that takes the options as they come.
OptionsAsGiven(o) == o

\* options = options || {}
OptionsOrDefault(o) == Or(o, EmptyObject)

\* o[key]: undefined on a primitive, which has no such property
Get(o, key) == IF o.t = "object" THEN o.f[key] ELSE Undefined

\* A constructor that lets the endpoint win over the region option.
ResolveRegionUrlFirst(region, result) ==
    Or(Or(And(result, IF result.t = "match" THEN result.g3 ELSE Undefined), region),
       Txt(wDefaultRegion))

\* options.region || (result && result[3]) || 'us-east-1'
ResolveRegion(region, result) ==
    Or(Or(region, And(result, IF result.t = "match" THEN result.g3 ELSE Undefined)),
       Txt(wDefaultRegion))

\* The constructor's result: the transport, or the exception it raised.
\* In strict mode an assignment to a property of a primitive raises TypeError.
Construct(opts) ==
    LET o == OptionsOrDefault(opts)
        result == PatternExec(Get(o, "ServiceUrl"))
    IN IF o.t # "object"
       THEN [t |-> "raised", error |-> "TypeError"]
       ELSE [t |-> "SESTransport",
             name |-> "SES",
             options |-> Object(
                [o.f EXCEPT
                   !["accessKeyId"] = Or(Get(o, "accessKeyId"), Get(o, "AWSAccessKeyID")),
                   !["secretAccessKey"] = Or(Get(o, "secretAccessKey"), Get(o, "AWSSecretKey")),
                   !["sessionToken"] = Or(Get(o, "sessionToken"), Get(o, "AWSSecurityToken")),
                   !["apiVersion"] = Str("2010-12-01"),
                   !["region"] = ResolveRegion(Get(o, "region"), result)])]

---------------------------------------------------------------------------
(* The collaborators' inputs *)

\* What a stream's 'data' event carries: a Buffer.  97 is "a"; 195 169 is
\* the two-byte form of U+00E9, whole or split over two chunks.  ('end'
\* carries no chunk: the handlers' `chunk || ''` is taken there.)
ChunkInputs ==
    {Buf(<<97>>), Buf(<<195>>), Buf(<<169>>), Buf(<<195, 169>>)}

\* What a stream's 'error' event carries.
StreamErrors == {ErrorObj(<<"stream", 0, 1>>, "read failed")}

\* What the client passes as err: an Error, or a value that is not one.
ProviderErrors ==
    {ErrorObj(<<"provider", 0, 1>>, "Throttling"), Str("boom"), Num(42)}

\* What the client passes as data.
ProviderData ==
    {Undefined, Null,
     [t |-> "object", MessageId |-> Undefined],
     [t |-> "object", MessageId |-> Str("")],
     [t |-> "object", MessageId |-> Str("abc123")]}

Responses ==
    {[err |-> e, data |-> Null] : e \in ProviderErrors}
      \cup {[err |-> Null, data |-> d] : d \in ProviderData}
      \cup {[err |-> Str(""), data |-> [t |-> "object", MessageId |-> Str("abc123")]]}

---------------------------------------------------------------------------
(* SESTransport.prototype.responseHandler *)

\* A responseHandler that wraps every error, an Error too.
WrapErrorAlways(err, fresh) == ErrorObj(fresh, "Email failed: " \o ToString(err))

\* if (!(err instanceof Error)) err = new Error('Email failed: ' + err)
WrapError(err, fresh) ==
    IF ~InstanceOfError(err)
    THEN ErrorObj(fresh, "Email failed: " \o ToString(err))
    ELSE err

\* A responseHandler that leaves the domain suffix out.
MessageIdOfNoSuffix(data) ==
    IF ~Truthy(data) THEN data
    ELSE IF ~Truthy(data.MessageId) THEN data.MessageId
    ELSE Str(ToString(data.MessageId))

\* data && data.MessageId && data.MessageId + '@email.amazonses.com'
MessageIdOf(data) ==
    IF ~Truthy(data) THEN data
    ELSE IF ~Truthy(data.MessageId) THEN data.MessageId
    ELSE Str(ToString(data.MessageId) \o "@email.amazonses.com")

\* A responseHandler that hands a result object over with the error.
ResponseHandlerResultOnError(err, data, fresh) ==
    IF Truthy(err)
    THEN [err |-> WrapError(err, fresh),
          result |-> [t |-> "object", messageId |-> MessageIdOf(data)]]
    ELSE [err |-> Null, result |-> [t |-> "object", messageId |-> MessageIdOf(data)]]

\* The arguments responseHandler passes to callback; fresh is the identity
\* of the Error it may create.
ResponseHandler(err, data, fresh) ==
    IF Truthy(err)
    THEN [err |-> WrapError(err, fresh), result |-> Null]
    ELSE [err |-> Null, result |-> [t |-> "object", messageId |-> MessageIdOf(data)]]

---------------------------------------------------------------------------
(* SESTransport.prototype.send, generateMessage, handleMessage *)

\* A send that obtains the stream before it sets the flag.
SendStepsStreamFirst == <<"createReadStream", "keepBcc", "generateMessage">>

\* The statements of send, in order.
SendSteps == <<"keepBcc", "createReadStream", "generateMessage">>

\* A generateMessage that keeps `email` on the shared adapter.
EmailSlotShared(c) == 1

\* generateMessage declares `var email` in its own activation: one per call.
EmailSlot(c) == c

\* handleMessage's handler closes over the callback it was given.
CallbackOf(c) == c

\* The events generateMessage listens to.
Listeners == {"data", "end"}

SendStep(st, step, c) ==
    CASE step = "keepBcc" ->
           [st EXCEPT !.keepBcc = TRUE, !.log = Append(@, "keepBcc")]
      [] step = "createReadStream" ->
           [st EXCEPT !.log = Append(@, "createReadStream")]
      [] step = "generateMessage" ->
           [st EXCEPT !.email = [@ EXCEPT ![EmailSlot(c)] = <<>>],
                      !.log = Append(@, "listen")]

RECURSIVE RunSteps(_, _, _)
RunSteps(st, steps, c) ==
    IF steps = <<>> THEN st
    ELSE RunSteps(SendStep(st, Head(steps), c), Tail(steps), c)

\* The function send passes to generateMessage.
SendContinuation(err, text) ==
    IF Truthy(err)
    THEN [op |-> "callback", args |-> [err |-> err, result |-> Undefined]]
    ELSE [op |-> "handleMessage", email |-> text]

RECURSIVE SumLen(_, _)
SumLen(f, n) == IF n = 0 THEN 0 ELSE Len(f[n]) + SumLen(f, n - 1)

TotalChunks == SumLen(emitted, NumCalls)

Send(c) ==
    /\ alive
    /\ pc[c] = "idle"
    /\ LET st == RunSteps([keepBcc |-> keepBcc[c], log |-> log[c], email |-> email],
                          SendSteps, c)
       IN /\ keepBcc' = [keepBcc EXCEPT ![c] = st.keepBcc]
          /\ log' = [log EXCEPT ![c] = st.log]
          /\ email' = st.email
    /\ pc' = [pc EXCEPT ![c] = "streaming"]
    /\ UNCHANGED <<emitted, streamErr, inflight, rawSent, response, cbCalls, alive>>
    /\ UNCHANGED ctorVars

\* The stream of call c emits 'data'.
StreamData(c, chunk) ==
    /\ alive
    /\ pc[c] = "streaming"
    /\ "data" \in Listeners
    /\ TotalChunks < MaxChunks
    /\ email' = [email EXCEPT ![EmailSlot(c)] = Accumulate(@, chunk)]
    /\ emitted' = [emitted EXCEPT ![c] = Append(@, chunk)]
    /\ log' = [log EXCEPT ![c] = Append(@, "data")]
    /\ UNCHANGED <<pc, keepBcc, streamErr, inflight, rawSent, response, cbCalls, alive>>
    /\ UNCHANGED ctorVars

\* The stream of call c emits 'end', which carries no chunk.
StreamEnd(c) ==
    /\ alive
    /\ pc[c] = "streaming"
    /\ "end" \in Listeners
    /\ LET text == Accumulate(email[EmailSlot(c)], Undefined)
           k == SendContinuation(Null, text)
       IN /\ email' = [email EXCEPT ![EmailSlot(c)] = text]
          /\ IF k.op = "handleMessage"
             THEN /\ inflight' = inflight \cup
                        {[params |-> RawParams(k.email), call |-> c,
                          handler |-> CallbackOf(c)]}
                  /\ rawSent' = [rawSent EXCEPT ![c] = Append(@, RawParams(k.email))]
                  /\ log' = [log EXCEPT ![c] = @ \o <<"end", "sendRawEmail">>]
                  /\ pc' = [pc EXCEPT ![c] = "sending"]
                  /\ UNCHANGED cbCalls
             ELSE /\ cbCalls' = [cbCalls EXCEPT ![c] = Append(@, k.args)]
                  /\ log' = [log EXCEPT ![c] = @ \o <<"end", "callback">>]
                  /\ pc' = [pc EXCEPT ![c] = "done"]
                  /\ UNCHANGED <<inflight, rawSent>>
    /\ UNCHANGED <<keepBcc, emitted, streamErr, response, alive>>
    /\ UNCHANGED ctorVars

\* The stream of call c emits 'error' before 'end'.  No listener is registered
\* for it, so the emitter throws the error: it is an uncaught exception, which
\* ends the process unless the embedding program handles it.
StreamError(c, e, dies) ==
    /\ alive
    /\ pc[c] = "streaming"
    /\ "error" \notin Listeners
    /\ streamErr' = [streamErr EXCEPT ![c] = e]
    /\ log' = [log EXCEPT ![c] = Append(@, "error")]
    /\ pc' = [pc EXCEPT ![c] = "uncaught"]
    /\ alive' = ~dies
    /\ UNCHANGED <<keepBcc, email, emitted, inflight, rawSent, response, cbCalls>>
    /\ UNCHANGED ctorVars

\* The client completes a pending request with (err, data).
Respond(req, r) ==
    /\ alive
    /\ req \in inflight
    /\ inflight' = inflight \ {req}
    /\ response' = [response EXCEPT ![req.call] = Append(@, r)]
    /\ LET cb == req.handler
           args == ResponseHandler(r.err, r.data, <<"wrapped", cb, Len(cbCalls[cb]) + 1>>)
       IN /\ cbCalls' = [cbCalls EXCEPT ![cb] = Append(@, args)]
          /\ log' = [log EXCEPT ![cb] = @ \o <<"response", "callback">>]
          /\ pc' = [pc EXCEPT ![cb] = "done"]
    /\ UNCHANGED <<keepBcc, email, emitted, streamErr, rawSent, alive>>
    /\ UNCHANGED ctorVars

InitSend ==
    /\ pc = [c \in Calls |-> "idle"]
    /\ keepBcc = [c \in Calls |-> FALSE]
    /\ email = [c \in Calls |-> <<>>]
    /\ emitted = [c \in Calls |-> <<>>]
    /\ streamErr = [c \in Calls |-> Undefined]
    /\ inflight = {}
    /\ rawSent = [c \in Calls |-> <<>>]
    /\ response = [c \in Calls |-> <<>>]
    /\ cbCalls = [c \in Calls |-> <<>>]
    /\ log = [c \in Calls |-> <<>>]
    /\ alive = TRUE

\* The adapter the calls are made on was created without options.
Init ==
    /\ InitSend
    /\ options = Undefined
    /\ adapter = Construct(Undefined)
    /\ ctorPc = "done"

Next ==
    \/ \E c \in Calls : Send(c)
    \/ \E c \in Calls, chunk \in ChunkInputs : StreamData(c, chunk)
    \/ \E c \in Calls : StreamEnd(c)
    \/ \E c \in Calls, e \in StreamErrors, dies \in BOOLEAN : StreamError(c, e, dies)
    \/ \E req \in inflight, r \in Responses : Respond(req, r)

Spec == Init /\ [][Next]_vars

---------------------------------------------------------------------------
(* The constructor applied to one options value *)

\* Endpoint strings: prefix word mid sep1 reg sep2 amazonaws sep3 tld suffix
UrlPrefixes == {<<>>, <<"h", "t", "t", "p", "s", ":", "/", "/">>, wEmail \o <<".">>}
UrlWords == {wEmail, <<"E", "m", "a", "i", "l">>, <<"m", "a", "i", "l">>}
UrlMids == {<<>>, <<"-", "s", "m", "t", "p">>}
UrlSep1 == {<<".">>, <<"-">>}
UrlRegions == {<<>>, <<"e", "u", "-", "w", "e", "s", "t", "-", "1">>, <<"a", ".", "b">>}
UrlSep2 == {<<".">>, <<"x">>, <<>>}
UrlSep3 == {<<".">>, <<"x">>}
UrlTlds == {wCom, <<"o", "r", "g">>}
UrlSuffixes == {<<>>, <<".">> \o wAmazonaws \o <<".">> \o wCom}

UrlInputs ==
    {p \o w \o m \o s1 \o r \o s2 \o wAmazonaws \o s3 \o t \o x :
       p \in UrlPrefixes, w \in UrlWords, m \in UrlMids, s1 \in UrlSep1,
       r \in UrlRegions, s2 \in UrlSep2, s3 \in UrlSep3, t \in UrlTlds,
       x \in UrlSuffixes}

RegionInputs ==
    {Undefined, Txt(<<>>), Txt(<<"a", "p", "-", "s", "o", "u", "t", "h", "-", "1">>), Num(5)}

ServiceUrlInputs == {Undefined, Num(7)} \cup {Txt(u) : u \in UrlInputs}

\* The endpoint the lower-case key is tried with.
wEndpoint ==
    <<"e", "m", "a", "i", "l", ".", "e", "u", "-", "w", "e", "s", "t", "-", "1", ".">>
      \o wAmazonaws \o <<".">> \o wCom

\* Credentials under the new names, the legacy names, both, or neither.
CredentialInputs ==
    {[new |-> n, old |-> o] : n \in {Undefined, Str("new")}, o \in {Undefined, Str("legacy")}}

OptionObject(region, upperUrl, lowerUrl, cred) ==
    Object([EmptyObject.f EXCEPT
              !["region"] = region,
              !["ServiceUrl"] = upperUrl,
              !["serviceUrl"] = lowerUrl,
              !["accessKeyId"] = cred.new,
              !["AWSAccessKeyID"] = cred.old,
              !["secretAccessKey"] = cred.new,
              !["AWSSecretKey"] = cred.old,
              !["sessionToken"] = cred.new,
              !["AWSSecurityToken"] = cred.old])

NoCredentials == [new |-> Undefined, old |-> Undefined]

OptionInputs ==
    {Undefined, Null, Str(""), Str("abc"), Num(0), Num(5), Bool(FALSE), Bool(TRUE)}
      \cup {OptionObject(r, u, Undefined, NoCredentials) :
              r \in RegionInputs, u \in ServiceUrlInputs}
      \cup {OptionObject(r, u, Txt(wEndpoint), c) :
              r \in RegionInputs, u \in {Undefined, Txt(wEndpoint)},
              c \in CredentialInputs}

\* module.exports = function(options) { return new SESTransport(options); }
Create ==
    /\ ctorPc = "start"
    /\ adapter' = Construct(options)
    /\ ctorPc' = "done"
    /\ UNCHANGED options
    /\ UNCHANGED sendVars

InitCreate ==
    /\ InitSend
    /\ options \in OptionInputs
    /\ adapter = Undefined
    /\ ctorPc = "start"

NextCreate == Create

SpecCreate == InitCreate /\ [][NextCreate]_vars

---------------------------------------------------------------------------
(* Properties of send *)

Range(f) == {f[i] : i \in DOMAIN f}

RECURSIVE ConcatBytes(_)
\* The bytes of the chunks, one after the other; a missing chunk has none.
ConcatBytes(chunks) ==
    IF chunks = <<>> THEN <<>>
    ELSE (IF Head(chunks).t = "Buffer" THEN Head(chunks).bytes ELSE <<>>)
           \o ConcatBytes(Tail(chunks))

RECURSIVE OwnText(_)
\* The text of the chunks, each decoded on its own, one after the other.
OwnText(chunks) ==
    IF chunks = <<>> THEN <<>>
    ELSE ChunkText(Head(chunks)) \o OwnText(Tail(chunks))

\* The bytes are UTF-8 text: decoding them replaces nothing.
WellFormed(bytes) == Replacement \notin Range(Utf8Decode(bytes))

Before(l, a, i) == \E j \in 1..(i - 1) : l[j] = a

\* C1: every send call invokes its callback exactly once, whatever the
\* outcome (success, provider error, stream error): a call that has ended
\* has invoked it once, and no call has invoked it twice.
C1_CallbackExactlyOnce ==
    \A c \in Calls :
        /\ Len(cbCalls[c]) <= 1
        /\ pc[c] \in {"done", "uncaught"} => Len(cbCalls[c]) = 1

\* C2: when the stream of a call signals an error before completion, the
\* callback receives that same error and sendRawEmail is not invoked.
C2_StreamErrorDelivered ==
    \A c \in Calls :
        streamErr[c] # Undefined =>
            /\ Len(cbCalls[c]) = 1
            /\ cbCalls[c][1].err = streamErr[c]
            /\ rawSent[c] = <<>>

\* C3: calls in flight at once are independent.  What a call passes to
\* sendRawEmail is made of its own chunks and of no other call's (their
\* bytes exactly, when each chunk is UTF-8 text by itself), and its callback
\* receives the translation of the response to its own request.
C3_CallsIndependent ==
    \A c \in Calls :
        /\ \A i \in DOMAIN rawSent[c] :
             /\ rawSent[c][i].RawMessage.Data = Buf(Utf8Encode(OwnText(emitted[c])))
             /\ (\A n \in DOMAIN emitted[c] : WellFormed(ConcatBytes(<<emitted[c][n]>>)))
                  => rawSent[c][i].RawMessage.Data.bytes = ConcatBytes(emitted[c])
        /\ Len(cbCalls[c]) = Len(response[c])
        /\ \A i \in DOMAIN response[c] :
             cbCalls[c][i] = ResponseHandler(response[c][i].err, response[c][i].data,
                                             <<"wrapped", c, i>>)
        /\ \A req \in inflight : req.call = c => req.params \in Range(rawSent[c])

\* C3, witness.  Two calls were in flight at once with different chunks: one has completed
\* while the other's request is pending.
C3_Witness ==
    \E c, d \in Calls :
        /\ c # d
        /\ pc[c] = "done" /\ Len(cbCalls[c]) = 1
        /\ pc[d] = "sending" /\ Len(rawSent[d]) = 1
        /\ emitted[c] # <<>> /\ emitted[d] # <<>>
        /\ ConcatBytes(emitted[c]) # ConcatBytes(emitted[d])

\* C4: every callback invocation has either a null error and a result
\* object holding messageId, or an Error and a null result: never both,
\* never neither.
C4_ErrorXorResult ==
    \A c \in Calls : \A i \in DOMAIN cbCalls[c] :
        LET a == cbCalls[c][i] IN
        \/ /\ a.err = Null
           /\ a.result.t = "object"
           /\ "messageId" \in DOMAIN a.result
        \/ /\ a.err.t = "Error"
           /\ a.result = Null

\* C4, witness.  One call has completed with an error and another with a result.
C4_Witness ==
    \E c, d \in Calls :
        /\ pc[c] = "done" /\ Len(cbCalls[c]) = 1 /\ cbCalls[c][1].err # Null
        /\ pc[d] = "done" /\ Len(cbCalls[d]) = 1 /\ cbCalls[d][1].err = Null

\* What String(err) is for the values the client fails with that are no Error.
C5_Stringified(err) ==
    CASE err = Str("boom") -> "boom"
      [] err = Num(42) -> "42"

\* The Error objects that exist before responseHandler runs.
C5_GivenErrors == {e \in ProviderErrors \cup StreamErrors : e.t = "Error"}

\* C5: when the client completes with an error err, the callback receives
\* (e, null), where e is err itself when err is an Error, and otherwise a new
\* Error whose message is "Email failed: " followed by err as a string.
C5_ProviderErrorTranslated ==
    \A c \in Calls : \A i \in DOMAIN response[c] :
        LET r == response[c][i] IN
        Truthy(r.err) =>
            /\ i \in DOMAIN cbCalls[c]
            /\ cbCalls[c][i].result = Null
            /\ IF r.err.t = "Error"
               THEN cbCalls[c][i].err = r.err
               ELSE /\ cbCalls[c][i].err.t = "Error"
                    /\ cbCalls[c][i].err.message = "Email failed: " \o C5_Stringified(r.err)
                    /\ cbCalls[c][i].err \notin C5_GivenErrors

\* C5, witness.  The client failed one call with the string "boom" and another with an
\* Error object.
C5_Witness ==
    \E c, d \in Calls :
        /\ response[c] = <<[err |-> Str("boom"), data |-> Null]>>
        /\ Len(cbCalls[c]) = 1
        /\ cbCalls[c][1].err.message = "Email failed: boom"
        /\ Len(response[d]) = 1 /\ response[d][1].err.t = "Error"
        /\ Len(cbCalls[d]) = 1

\* data.MessageId is present and truthy
C6_HasMessageId(data) ==
    /\ data.t = "object"
    /\ data.MessageId.t = "string"
    /\ data.MessageId.v # ""

\* C6 as stated: when the client completes without error, the callback
\* receives (null, { messageId: m }), where m is data.MessageId followed by
\* "@email.amazonses.com" when data.MessageId is present and truthy, and
\* undefined in every other case.
C6_Original ==
    \A c \in Calls : \A i \in DOMAIN response[c] :
        LET r == response[c][i] IN
        r.err = Null =>
            /\ i \in DOMAIN cbCalls[c]
            /\ cbCalls[c][i].err = Null
            /\ cbCalls[c][i].result.messageId =
                 IF C6_HasMessageId(r.data)
                 THEN Str(r.data.MessageId.v \o "@email.amazonses.com")
                 ELSE Undefined

\* C6 as amended: in every other case m is the falsy value that ended the
\* chain: data itself when data is missing or null, and data.MessageId
\* otherwise (undefined when missing, "" when empty).
C6_Amended ==
    \A c \in Calls : \A i \in DOMAIN response[c] :
        LET r == response[c][i] IN
        r.err = Null =>
            /\ i \in DOMAIN cbCalls[c]
            /\ cbCalls[c][i].err = Null
            /\ cbCalls[c][i].result.messageId =
                 IF C6_HasMessageId(r.data)
                 THEN Str(r.data.MessageId.v \o "@email.amazonses.com")
                 ELSE IF r.data.t \in {"undefined", "null"} THEN r.data
                 ELSE r.data.MessageId
            /\ ~C6_HasMessageId(r.data) => ~Truthy(cbCalls[c][i].result.messageId)

\* C6, witness.  One call was answered with MessageId "abc123" and another with null data.
C6_Witness ==
    \E c, d \in Calls :
        /\ response[c] = <<[err |-> Null,
                            data |-> [t |-> "object", MessageId |-> Str("abc123")]]>>
        /\ Len(cbCalls[c]) = 1
        /\ cbCalls[c][1].result.messageId = Str("abc123@email.amazonses.com")
        /\ response[d] = <<[err |-> Null, data |-> Null]>>
        /\ Len(cbCalls[d]) = 1
        /\ cbCalls[d][1].result.messageId = Null

\* C9: within a call the steps are ordered.  keepBcc is set before the stream
\* is obtained and before any chunk arrives, whatever the outcome;
\* sendRawEmail is invoked only after the stream has ended; the callback is
\* invoked only after the client has answered that request.
C9_StepsOrdered ==
    \A c \in Calls :
        /\ pc[c] # "idle" => keepBcc[c] /\ log[c] # <<>>
        /\ \A i \in DOMAIN log[c] :
             /\ log[c][i] \in {"createReadStream", "listen", "data", "end", "error"}
                  => Before(log[c], "keepBcc", i)
             /\ log[c][i] = "data" => Before(log[c], "createReadStream", i)
             /\ log[c][i] = "sendRawEmail" => Before(log[c], "end", i)
             /\ log[c][i] = "response" => Before(log[c], "sendRawEmail", i)
             /\ log[c][i] = "callback" => Before(log[c], "response", i)
        /\ rawSent[c] # <<>> => Before(log[c], "end", Len(log[c]) + 1)
        /\ cbCalls[c] # <<>> => response[c] # <<>>

\* C9, witness.  A call has gone through every step, and another has ended on a stream
\* error.
C9_Witness ==
    \E c, d \in Calls :
        /\ log[c] = <<"keepBcc", "createReadStream", "listen", "data", "end",
                      "sendRawEmail", "response", "callback">>
        /\ pc[d] = "uncaught" /\ keepBcc[d]

\* C10: the data handed to sendRawEmail is the concatenation of the chunks
\* in emission order, nothing dropped, duplicated, reordered or altered;
\* stated for the streams that carry UTF-8 text.
C10_DataIsConcatenation ==
    \A c \in Calls : \A i \in DOMAIN rawSent[c] :
        WellFormed(ConcatBytes(emitted[c])) =>
            rawSent[c][i].RawMessage.Data.bytes = ConcatBytes(emitted[c])

---------------------------------------------------------------------------
(* Properties of the constructor *)

C7_Terminators == {"\n", "\r"}

\* The matches of the pattern in s, each <<b, e, j, k>>: the match starts at
\* b, the word email stands at e, the escaped full stop at j, and the
\* character before amazonaws at k.  With strict, the characters before
\* amazonaws and before com must be full stops; without, they may be any.
C7_Matches(s, strict) ==
    LET Sep(n) == /\ n <= Len(s)
                  /\ IF strict THEN s[n] = "." ELSE s[n] \notin C7_Terminators
        Clear(m, n) == \A x \in m..n : s[x] \notin C7_Terminators
        E == {e \in 1..Len(s) : LitAt(s, e, wEmail)}
        J == {j \in 1..Len(s) : s[j] = "."}
        K == {k \in 1..Len(s) :
                /\ Sep(k)
                /\ LitAt(s, k + 1, wAmazonaws)
                /\ Sep(k + 10)
                /\ LitAt(s, k + 11, wCom)}
    IN {m \in (1..(Len(s) + 1)) \X E \X J \X K :
          /\ m[1] <= m[2] /\ Clear(m[1], m[2] - 1)
          /\ m[2] + 5 <= m[3] /\ Clear(m[2] + 5, m[3] - 1)
          /\ m[3] < m[4] /\ Clear(m[3] + 1, m[4] - 1)}

\* The match exec reports: the leftmost, with the first group as long as
\* can be, then the second, then the third.
C7_Preferred(M) ==
    CHOOSE m \in M : \A n \in M :
        \/ m[1] < n[1]
        \/ m[1] = n[1] /\ m[2] > n[2]
        \/ m[1] = n[1] /\ m[2] = n[2] /\ m[3] > n[3]
        \/ m[1] = n[1] /\ m[2] = n[2] /\ m[3] = n[3] /\ m[4] >= n[4]

C7_Capture3(s, strict) ==
    LET m == C7_Preferred(C7_Matches(s, strict)) IN SubSeq(s, m[3] + 1, m[4] - 1)

C7_Option(opts, key) == IF opts.t = "object" THEN opts.f[key] ELSE Undefined

\* C7 as stated: the region is the region option when it is given; else the
\* third capture of the pattern, with its full stops escaped, in the
\* serviceUrl option when that matches; else "us-east-1".
C7_ClaimedRegion(opts) ==
    LET region == C7_Option(opts, "region")
        url == C7_Option(opts, "serviceUrl")
    IN IF region # Undefined THEN region
       ELSE IF url.t = "text" /\ C7_Matches(url.cs, TRUE) # {}
            THEN Txt(C7_Capture3(url.cs, TRUE))
       ELSE Txt(wDefaultRegion)

\* C7, as stated: once constructed, the stored region is the region option
\* when given, else the third capture of the serviceUrl option under the
\* pattern with escaped full stops, else "us-east-1".
C7_Original ==
    ctorPc = "done" /\ adapter.t = "SESTransport"
        => adapter.options.f["region"] = C7_ClaimedRegion(options)

\* C7 as amended: the region is the region option when it is truthy; else
\* the third capture of the pattern in the ServiceUrl option (capital S),
\* the characters before amazonaws and before com being any character, when
\* that matches and the capture is not empty; else "us-east-1".
C7_AmendedRegion(opts) ==
    LET region == C7_Option(opts, "region")
        url == ToChars(C7_Option(opts, "ServiceUrl"))
    IN IF Truthy(region) THEN region
       ELSE IF C7_Matches(url, FALSE) # {} /\ C7_Capture3(url, FALSE) # <<>>
            THEN Txt(C7_Capture3(url, FALSE))
       ELSE Txt(wDefaultRegion)

\* C7, as amended: once constructed, the stored region is the region option
\* when truthy, else the non-empty third capture of the ServiceUrl option
\* under the pattern as the constructor writes it, else "us-east-1".
C7_Amended ==
    ctorPc = "done" /\ adapter.t = "SESTransport"
        => adapter.options.f["region"] = C7_AmendedRegion(options)

\* C7, witness.  The constructor took the region from a ServiceUrl that the pattern with
\* escaped full stops does not match.
C7_Witness ==
    /\ ctorPc = "done"
    /\ adapter.t = "SESTransport"
    /\ options.t = "object"
    /\ options.f["region"] = Undefined
    /\ options.f["ServiceUrl"].t = "text"
    /\ C7_Matches(options.f["ServiceUrl"].cs, TRUE) = {}
    /\ adapter.options.f["region"] = Txt(<<"e", "u", "-", "w", "e", "s", "t", "-", "1">>)

====
